---- MODULE Spec2Model ----
(***************************************************************************)
(* Game Experience Manager (src/main.py): the two pandas collections      *)
(* (played games, wishlist), their CSV files, the date formatter and the  *)
(* Tk callbacks that edit them.                                            *)
(*                                                                         *)
(* Text that the code inspects character by character (dates) is a        *)
(* sequence of one-character strings; text the code only copies and       *)
(* compares as a whole (titles, genres, prices) is a TLA+ string.         *)
(* A score cell is its value in tenths (42 is the text "4.2").            *)
(* Column names: title = 게임명/제목, genre = 장르, status = 분류,          *)
(* start = 시작, finish = 마무리, scores = 만족도..완성도, total = 총점,     *)
(* price = 가격현황, discount = 할인률.                                      *)
(***************************************************************************)
EXTENDS Integers, Sequences, FiniteSets, TLC

(***************************************************************************)
(* Bounds of the model                                                     *)
(***************************************************************************)
MaxFileRows == 2    \* rows of the two data files together at first launch
MaxOps == 3         \* operations (callbacks other than navigation) per run
MaxDateLen == 4     \* characters of a string given to DateFormatter
MaxLogOps == 3      \* log operations per run

(***************************************************************************)
(* Text helpers                                                            *)
(***************************************************************************)
Digits == {"0", "1", "2", "3", "4", "5", "6", "7", "8", "9"}

\* ord() of the characters that occur in date text
Ord(c) ==
    CASE c = " " -> 32 [] c = "." -> 46 [] c = "/" -> 47
      [] c = "0" -> 48 [] c = "1" -> 49 [] c = "2" -> 50 [] c = "3" -> 51
      [] c = "4" -> 52 [] c = "5" -> 53 [] c = "6" -> 54 [] c = "7" -> 55
      [] c = "8" -> 56 [] c = "9" -> 57 [] OTHER -> 120

RECURSIVE StrLess(_, _)
\* Python's a < b on str: lexicographic by code point
StrLess(a, b) ==
    IF b = <<>> THEN FALSE
    ELSE IF a = <<>> THEN TRUE
    ELSE IF Head(a) # Head(b) THEN Ord(Head(a)) < Ord(Head(b))
    ELSE StrLess(Tail(a), Tail(b))

RECURSIVE LStrip(_)
LStrip(s) == IF s # <<>> /\ Head(s) = " " THEN LStrip(Tail(s)) ELSE s

RECURSIVE RStrip(_)
RStrip(s) ==
    IF s # <<>> /\ s[Len(s)] = " " THEN RStrip(SubSeq(s, 1, Len(s) - 1)) ELSE s

\* str.strip()
Strip(s) == LStrip(RStrip(s))

RECURSIVE RemoveDotZero(_)
\* str.replace(".0", ""): every non-overlapping occurrence, left to right
RemoveDotZero(s) ==
    IF Len(s) < 2 THEN s
    ELSE IF s[1] = "." /\ s[2] = "0" THEN RemoveDotZero(SubSeq(s, 3, Len(s)))
    ELSE <<Head(s)>> \o RemoveDotZero(Tail(s))

\* str.isdigit() on the characters of date text
IsDigit(s) == s # <<>> /\ \A i \in 1..Len(s) : s[i] \in Digits

\* "/" in s
HasSlash(s) == \E i \in 1..Len(s) : s[i] = "/"

RECURSIVE Split(_)
\* s.split("/")
Split(s) ==
    IF ~HasSlash(s) THEN <<s>>
    ELSE LET k == CHOOSE i \in 1..Len(s) :
                      s[i] = "/" /\ \A j \in 1..(i - 1) : s[j] # "/"
         IN <<SubSeq(s, 1, k - 1)>> \o Split(SubSeq(s, k + 1, Len(s)))

Reverse(s) == [i \in 1..Len(s) |-> s[Len(s) + 1 - i]]

(***************************************************************************)
(* DateFormatter                                                           *)
(***************************************************************************)
to_display_format(date_str) ==
    IF Strip(date_str) = <<>> THEN <<>>
    ELSE LET s == Strip(RemoveDotZero(date_str))
         IN IF HasSlash(s) THEN s
            ELSE IF Len(s) = 8 /\ IsDigit(s)
                 THEN SubSeq(s, 1, 4) \o <<"/">> \o SubSeq(s, 5, 6)
                          \o <<"/">> \o SubSeq(s, 7, 8)
                 ELSE s

to_storage_format(date_str) ==
    IF Strip(date_str) = <<>> THEN <<>>
    ELSE LET s == Strip(date_str)
         IN IF HasSlash(s) THEN s
            ELSE IF Len(s) = 8 /\ IsDigit(s)
                 THEN SubSeq(s, 1, 4) \o <<"/">> \o SubSeq(s, 5, 6)
                          \o <<"/">> \o SubSeq(s, 7, 8)
                 ELSE s

parse_from_fields(year, month, day) ==
    LET y == IF Strip(year) # <<>> THEN Strip(year) ELSE <<"0", "0", "0", "0">>
        m0 == IF Strip(month) # <<>> THEN Strip(month) ELSE <<"0", "0">>
        d0 == IF Strip(day) # <<>> THEN Strip(day) ELSE <<"0", "0">>
        m == IF m0 # <<"0", "0">> /\ Len(m0) = 1 THEN <<"0">> \o m0 ELSE m0
        d == IF d0 # <<"0", "0">> /\ Len(d0) = 1 THEN <<"0">> \o d0 ELSE d0
    IN y \o <<"/">> \o m \o <<"/">> \o d

split_to_fields(date_str) ==
    IF Strip(date_str) = <<>> THEN <<<<>>, <<>>, <<>>>>
    ELSE LET s == to_display_format(date_str)
             parts == Split(s)
         IN IF HasSlash(s) /\ Len(parts) = 3
            THEN <<parts[1],
                   IF parts[2] = <<"0", "0">> THEN <<>> ELSE parts[2],
                   IF parts[3] = <<"0", "0">> THEN <<>> ELSE parts[3]>>
            ELSE <<s, <<>>, <<>>>>

(***************************************************************************)
(* Program constants                                                       *)
(***************************************************************************)
\* self.status_options: 메인1, 메인2, 대기중, 잠시멈춤, 엔딩완료, 업적완료,
\* 중도폐기, 치트모드
status_options ==
    {"MAIN1", "MAIN2", "WAITING", "PAUSED", "ENDING_DONE",
     "ACHIEVEMENT_DONE", "DROPPED", "CHEAT_MODE"}

\* the text pandas.read_csv turns into NaN (its default na_values), which
\* fillna("") then turns into the empty string
NAValues ==
    {"", "#N/A", "#N/A N/A", "#NA", "-1.#IND", "-1.#QNAN", "-NaN", "-nan",
     "1.#IND", "1.#QNAN", "<NA>", "N/A", "NA", "NULL", "NaN", "None", "n/a",
     "nan", "null"}

(***************************************************************************)
(* Input domains                                                           *)
(***************************************************************************)
d_2023_09_12 == <<"2", "0", "2", "3", "/", "0", "9", "/", "1", "2">>
d_2024_01_05 == <<"2", "0", "2", "4", "/", "0", "1", "/", "0", "5">>
d_2024_01_06 == <<"2", "0", "2", "4", "/", "0", "1", "/", "0", "6">>

\* dates as files of older versions hold them: 20230912.0 and 20240105
d_20230912_0 == <<"2", "0", "2", "3", "0", "9", "1", "2", ".", "0">>
d_20240105 == <<"2", "0", "2", "4", "0", "1", "0", "5">>

\* datetime.now().strftime("%Y/%m/%d") on the days a run spans
Days == <<d_2024_01_05, d_2024_01_06>>

ZeroScores == <<0, 0, 0, 0, 0, 0>>

\* rows a played-games file holds at first launch: a file is a run of
\* these from the first on, in this order or the opposite one
SeedGames ==
    <<[title |-> "Zelda", genre |-> "RPG", status |-> "MAIN1",
       start |-> d_20230912_0, finish |-> d_20240105,
       scores |-> <<45, 40, 50, 35, 40, 45>>, total |-> 42],
      [title |-> "Hades", genre |-> "Action", status |-> "PAUSED",
       start |-> <<>>, finish |-> <<>>,
       scores |-> ZeroScores, total |-> 0],
      [title |-> "Zelda", genre |-> "RPG", status |-> "ENDING_DONE",
       start |-> d_2023_09_12, finish |-> d_2024_01_05,
       scores |-> <<45, 40, 50, 35, 40, 45>>, total |-> 42]>>

\* rows a wishlist file holds at first launch: a file is a run of these
\* from the first on
SeedWishes ==
    <<[title |-> "Zelda", genre |-> "RPG", price |-> "59000", discount |-> "10"],
      [title |-> "Zelda", genre |-> "RPG", price |-> "59000", discount |-> "20"],
      [title |-> "Celeste", genre |-> "", price |-> "N/A", discount |-> ""],
      [title |-> "Zelda", genre |-> "RPG", price |-> "59000", discount |-> "10"]>>

\* what the user types into the "Game Title" dialog ("" is Cancel or blank)
TitleInputs == {"", "NA"}

\* what the user picks in the status combobox
StatusInputs == {"ENDING_DONE"}

\* what the user types into the year, month, day fields of a date widget
DateInputs == {<<<<"2", "0", "2", "4">>, <<"3">>, <<>>>>}

\* slider positions on Save Scores, already rounded to one decimal
ScoreInputs == {<<50, 50, 50, 50, 50, 0>>}

\* what the user types into the price and discount dialogs
PriceInputs == {<<"N/A", "0">>}

\* every slider setting followed in the score editor, rounded to one decimal
SliderInputs ==
    {<<50, 50, 50, 50, 50, 0>>, <<3, 0, 0, 0, 0, 0>>, <<1, 2, 0, 0, 0, 0>>,
     <<15, 0, 0, 0, 0, 0>>}

SeqsUpTo(S, n) == UNION {[1..k -> S] : k \in 0..n}

\* the text DateFormatter is given: every string of at most MaxDateLen of
\* these characters, and the dates of the files
DateChars == {"0", "2", ".", "/", " "}
DateStrings ==
    SeqsUpTo(DateChars, MaxDateLen)
        \cup {d_20230912_0, d_20240105, d_2023_09_12}

\* what the user can leave in the year field and in the month or day field
\* of a DateWidget
YearFields ==
    {<<>>, <<" ">>, <<"2", "0", "2", "4">>, <<" ", "2", "0", "2", "4">>,
     <<"2", "4">>}
MonthDayFields ==
    {<<>>, <<" ">>, <<"3">>, <<"0", "3">>, <<"1", "2">>, <<"0", "0">>,
     <<"1", "2", "3">>}
DateFields == YearFields \X MonthDayFields \X MonthDayFields

\* game names whose details screen is opened, character by character
GameNames == {<<"Z">>, <<"Z", "!">>, <<"H">>}

\* what the user leaves in the quick log entry
QuickEntries == {<<>>, <<"w", "o", "n">>, <<" ", "o", "k", " ">>}

(***************************************************************************)
(* DataFrames and files                                                    *)
(***************************************************************************)
\* pd.DataFrame(): no columns, no rows
EmptyDataFrame == [cols |-> FALSE, index |-> <<>>, rows |-> <<>>]

RangeIndex(n) == [i \in 1..n |-> i - 1]

\* DataFrame.empty
IsEmpty(df) == ~df.cols \/ df.rows = <<>>

\* position (1-based) of index label lbl, 0 if the label is absent
Loc(df, lbl) ==
    IF \E p \in 1..Len(df.index) : df.index[p] = lbl
    THEN CHOOSE p \in 1..Len(df.index) : df.index[p] = lbl
    ELSE 0

NoFile == [kind |-> "missing", rows |-> <<>>]
BadFile == [kind |-> "unparsable", rows |-> <<>>]
Table(rows) == [kind |-> "table", rows |-> rows]

\* one text cell through read_csv(dtype=str) and fillna("")
read_cell(text) == IF text \in NAValues THEN "" ELSE text

\* the columns whose cells the model holds as whole strings
TextColumns == {"title", "genre", "status", "price", "discount"}

\* one row through read_csv(dtype=str) and fillna("")
read_row(r) ==
    [c \in DOMAIN r |-> IF c \in TextColumns THEN read_cell(r[c]) ELSE r[c]]

\* load_csv that treats a missing file like one it cannot parse
load_csv_strict(file) ==
    IF file.kind # "table" THEN <<EmptyDataFrame, <<"error">>>>
    ELSE <<[cols |-> TRUE, index |-> RangeIndex(Len(file.rows)),
            rows |-> [i \in 1..Len(file.rows) |-> read_row(file.rows[i])]],
           <<>>>>

\* load_csv: <<DataFrame, error dialogs shown>>
load_csv(file) ==
    IF file.kind = "missing" THEN <<EmptyDataFrame, <<>>>>
    ELSE IF file.kind = "unparsable" THEN <<EmptyDataFrame, <<"error">>>>
    ELSE <<[cols |-> TRUE, index |-> RangeIndex(Len(file.rows)),
            rows |-> [i \in 1..Len(file.rows) |-> read_row(file.rows[i])]],
           <<>>>>

\* what a write to disk does: "ok", "refused" (the open fails, the file is
\* untouched) or "cut" (the file was truncated and the write then failed);
\* the pairs are what the two writes of one save_all_data do
WriteOutcomes ==
    {<<"ok", "ok">>, <<"refused", "ok">>, <<"ok", "cut">>}

\* save_csv whose except clause shows nothing
save_csv_silent(df, file, outcome) ==
    IF outcome = "ok"
    THEN <<IF df.cols THEN Table(df.rows) ELSE BadFile, <<>>>>
    ELSE IF outcome = "refused" THEN <<file, <<>>>>
    ELSE <<BadFile, <<>>>>

\* save_csv: <<file afterwards, error dialogs shown>>
save_csv(df, file, outcome) ==
    IF outcome = "ok"
    THEN <<IF df.cols THEN Table(df.rows) ELSE BadFile, <<>>>>
    ELSE IF outcome = "refused" THEN <<file, <<"error">>>>
    ELSE <<BadFile, <<"error">>>>

\* a migration that converts the start column only
migrate_start_dates(df) ==
    IF ~df.cols THEN df
    ELSE [df EXCEPT !.rows =
             [i \in 1..Len(df.rows) |->
                 [df.rows[i] EXCEPT !.start = to_display_format(@)]]]

\* _migrate_date_formats
migrate_date_formats(df) ==
    IF ~df.cols THEN df
    ELSE [df EXCEPT !.rows =
             [i \in 1..Len(df.rows) |->
                 [df.rows[i] EXCEPT !.start = to_display_format(@),
                                    !.finish = to_display_format(@)]]]

(***************************************************************************)
(* sort_values(by='시작', ascending=..., na_position='last')                *)
(***************************************************************************)
\* pandas.isna on a cell of the start column: load_csv's fillna("") and the
\* string literals of the new rows leave text in every cell, never NaN
isna(cell) == FALSE

RECURSIVE InsertStable(_, _, _)
\* insertion sort step: p goes after every position whose key is <= its own
InsertStable(perm, p, keys) ==
    IF perm = <<>> THEN <<p>>
    ELSE IF StrLess(keys[p], keys[perm[Len(perm)]])
         THEN InsertStable(SubSeq(perm, 1, Len(perm) - 1), p, keys)
                  \o <<perm[Len(perm)]>>
         ELSE perm \o <<p>>

RECURSIVE ArgsortUpTo(_, _)
ArgsortUpTo(keys, n) ==
    IF n = 0 THEN <<>> ELSE InsertStable(ArgsortUpTo(keys, n - 1), n, keys)

\* numpy argsort of an object array (insertion sort below 17 elements)
argsort(keys) == ArgsortUpTo(keys, Len(keys))

\* the positions of items, in order, whose isna is na
PositionsWhereNa(items, na) ==
    LET F[i \in 0..Len(items)] ==
            IF i = 0 THEN <<>>
            ELSE IF isna(items[i]) = na THEN F[i - 1] \o <<i>> ELSE F[i - 1]
    IN F[Len(items)]

\* pandas nargsort: positions (1-based) in sorted order
nargsort(items, ascending) ==
    LET non_nan_idx0 == PositionsWhereNa(items, FALSE)
        nan_idx == PositionsWhereNa(items, TRUE)
        non_nan_idx == IF ascending THEN non_nan_idx0 ELSE Reverse(non_nan_idx0)
        non_nans == [k \in 1..Len(non_nan_idx) |-> items[non_nan_idx[k]]]
        order == argsort(non_nans)
        indexer0 == [k \in 1..Len(order) |-> non_nan_idx[order[k]]]
        indexer == IF ascending THEN indexer0 ELSE Reverse(indexer0)
    IN indexer \o nan_idx

\* sort_values that ignores the direction asked for
sort_values_ascending(df, ascending) ==
    LET ix == nargsort([i \in 1..Len(df.rows) |-> df.rows[i].start], TRUE)
    IN [df EXCEPT !.index = [k \in 1..Len(ix) |-> df.index[ix[k]]],
                  !.rows = [k \in 1..Len(ix) |-> df.rows[ix[k]]]]

sort_values(df, ascending) ==
    LET ix == nargsort([i \in 1..Len(df.rows) |-> df.rows[i].start], ascending)
    IN [df EXCEPT !.index = [k \in 1..Len(ix) |-> df.index[ix[k]]],
                  !.rows = [k \in 1..Len(ix) |-> df.rows[ix[k]]]]

reset_index(df) == [df EXCEPT !.index = RangeIndex(Len(df.rows))]

\* a concat that merges new_row into an older row of the same title
concat_merge(df, new_row) ==
    IF \E i \in 1..Len(df.rows) : df.rows[i].title = new_row.title
    THEN [df EXCEPT !.rows =
             [i \in 1..Len(df.rows) |->
                 IF df.rows[i].title = new_row.title THEN new_row
                 ELSE df.rows[i]]]
    ELSE [cols |-> TRUE, index |-> RangeIndex(Len(df.rows) + 1),
          rows |-> Append(df.rows, new_row)]

\* pd.concat([df, pd.DataFrame([new_row])], ignore_index=True)
concat(df, new_row) ==
    [cols |-> TRUE, index |-> RangeIndex(Len(df.rows) + 1),
     rows |-> Append(df.rows, new_row)]

\* df.drop(label): the row whose index label is label goes
drop(df, label) ==
    LET p == Loc(df, label)
    IN [df EXCEPT !.index = SubSeq(df.index, 1, p - 1)
                                \o SubSeq(df.index, p + 1, Len(df.index)),
                  !.rows = SubSeq(df.rows, 1, p - 1)
                               \o SubSeq(df.rows, p + 1, Len(df.rows))]

\* df[column] = value: the assignment reaches every row of the column
at_set_column(df, label, values) ==
    [df EXCEPT !.rows =
        [p \in 1..Len(df.rows) |->
            [c \in DOMAIN df.rows[p] |->
                IF c \in DOMAIN values THEN values[c] ELSE df.rows[p][c]]]]

\* df.at[label, column] = value for each column of the record values
at_set(df, label, values) ==
    [df EXCEPT !.rows[Loc(df, label)] =
        [c \in DOMAIN @ |-> IF c \in DOMAIN values THEN values[c] ELSE @[c]]]

(***************************************************************************)
(* Python floats of save_scores.  A score is held in tenths; the double    *)
(* that Python holds for it is written A/60 + E/(60 * 2^60), with A an     *)
(* integer and E the (small, integer) distance of the double from A/60.    *)
(***************************************************************************)
\* 2^j mod 120 for j >= 3: 2^j is 0 mod 8, and mod 15 it repeats every 4
PowMod120(j) == (2 ^ ((j % 4) + 4)) % 120

\* the binary exponent e of the positive number A/60 + b (b tiny, of the
\* sign given): 2^e <= A/60 + b < 2^(e+1)
float_exponent(A, b) ==
    LET e0 == CHOOSE e \in -6..4 :
                  60 * 2 ^ (e + 6) <= 64 * A /\ 64 * A < 60 * 2 ^ (e + 7)
    IN IF 60 * 2 ^ (e0 + 6) = 64 * A /\ b < 0 THEN e0 - 1 ELSE e0

\* the number A/60 + b/(c * 2^60) rounded to the nearest multiple of
\* 1/2^j, to the even one of two: the E of the result
float_nearest(A, b, c, j) ==
    LET r120 == ((A % 120) * PowMod120(j)) % 120
        r == r120 % 60                            \* (A * 2^j) mod 60
        k == 2 ^ (60 - j)
        n == r * (c \div 60) * k + b
        q0 == n \div (c * k)                      \* floor
        odd == (r120 \div 60 + q0) % 2 = 1
        up == IF 2 * (n % (c * k)) > c * k
                 \/ (2 * (n % (c * k)) = c * k /\ odd)
              THEN 1 ELSE 0
    IN k * (60 * (q0 + up) - r)

\* IEEE 754 round-to-nearest-even of the number A/60 + b/(c * 2^60) to a
\* double (53 significant bits, so a multiple of 2^(e - 52)), c a multiple
\* of 60: the E of the result
float_round(A, b, c) ==
    IF A = 0 THEN 0 ELSE float_nearest(A, b, c, 52 - float_exponent(A, b))

\* round(v, 1) of a slider position v whose nearest tenth is t
float_tenth(t) == float_round(6 * t, 0, 60)

\* float_tenth on the range of a slider, 0.0 to 5.0
SliderTenths == [t \in 0..50 |-> float_tenth(t)]

RECURSIVE float_total(_, _, _)
\* total = 0; for col: total += val -- <<tenths, E>> of total after the
\* scores vals, from total = T/10 + E/(60 * 2^60)
float_total(vals, T, E) ==
    IF vals = <<>> THEN <<T, E>>
    ELSE float_total(Tail(vals), T + Head(vals),
                     float_round(6 * (T + Head(vals)),
                                 E + SliderTenths[Head(vals)], 60))

\* round(x, 1) in tenths, of the double x that is T/60 + avg/(60 * 2^60):
\* the tenth nearest to x, the even one of two
round_tenth(T, avg) ==
    IF T % 6 < 3 THEN T \div 6
    ELSE IF T % 6 > 3 THEN T \div 6 + 1
    ELSE IF avg > 0 THEN T \div 6 + 1
    ELSE IF avg < 0 THEN T \div 6
    ELSE IF (T \div 6) % 2 = 0 THEN T \div 6 ELSE T \div 6 + 1

\* round(total / 6, 1) in tenths, of the double total held as <<T, E>>
score_average(total) ==
    round_tenth(total[1], float_round(total[1], total[2], 360))

\* avg_score of save_scores for the six scores vals, in tenths
round_mean(vals) == score_average(float_total(vals, 0, 0))

(***************************************************************************)
(* Daily logs.  A log file is held as its lines; the line an entry makes,  *)
(* "[timestamp] text", as <<timestamp, text>>, and a line typed by hand as *)
(* <<0, text>>.                                                            *)
(***************************************************************************)
\* str.isalnum() on the characters of game names
isalnum(c) == c \in Digits \cup {"H", "Z"}

\* the path of the log of game_name, but for the directory and "_log.txt"
get_log_filename(game_name) ==
    Strip(SelectSeq(game_name,
                    LAMBDA x : isalnum(x) \/ x \in {" ", "-", "_"}))

LogFileNames == {get_log_filename(g) : g \in GameNames}

\* no file at the path
NoLog == [exists |-> FALSE, lines |-> <<>>]

read_daily_log(files, game_name) ==
    IF files[get_log_filename(game_name)].exists
    THEN files[get_log_filename(game_name)].lines
    ELSE <<>>

save_daily_log_file(files, game_name, content) ==
    [files EXCEPT ![get_log_filename(game_name)] =
        [exists |-> TRUE, lines |-> content]]

\* an append that puts the entry before the lines of the file
append_entry_first(files, game_name, entry) ==
    [files EXCEPT ![get_log_filename(game_name)] =
        [exists |-> TRUE, lines |-> <<entry>> \o @.lines]]

\* with open(fname, "a") as f: f.write(entry)
append_entry(files, game_name, entry) ==
    [files EXCEPT ![get_log_filename(game_name)] =
        [exists |-> TRUE, lines |-> Append(@.lines, entry)]]

\* self.log_text.get("1.0", tk.END): the text and the newline Tk ends it with
text_get(lines) == Append(lines, <<0, <<>>>>)

NoCall == [op |-> "none", game |-> <<>>, text |-> <<>>, n |-> 0]

(***************************************************************************)
(* State                                                                   *)
(***************************************************************************)
VARIABLES
    evaluations_df,   \* self.evaluations_df
    wishlist_df,      \* self.wishlist_df
    sort_descending,  \* self.sort_descending
    eval_file,        \* what is on disk at self.eval_path
    wish_file,        \* what is on disk at self.wish_path
    day,              \* position in Days of the date datetime.now() gives
                      \* while the application is running
    screen,           \* what the content frame shows
    listed,           \* index labels the row buttons on screen were made for
    sort_btn,         \* text of the sort button on screen
    details_index,    \* df_index the details screen was opened for, or -1
    popup_index,      \* df_index the open score editor was opened for, or -1
    popup_game,       \* index now of the record that editor was opened for
    dialogs,          \* message boxes the last operation showed, in order
    raised,           \* the last operation ended in an uncaught exception
    lastOp,           \* the last operation: a callback other than navigation
    ops,              \* operations so far
    sort_run,         \* toggle_sort calls in a row and the state before them
    log_files,        \* what is on disk at each *_log.txt path
    log_game,         \* game_name the details screen on show was drawn for
    log_text,         \* lines of self.log_text
    log_editable,     \* self.log_editable
    log_call,         \* the last log operation and its arguments
    now,              \* the minute datetime.now() gives
    date_trace,       \* a DateFormatter input and the results obtained from it
    date_calls        \* the kind of that input, "text" or "fields", and the
                      \* DateFormatter functions called on it, in order

vars ==
    <<evaluations_df, wishlist_df, sort_descending, eval_file, wish_file, day,
      screen, listed, sort_btn, details_index, popup_index, popup_game,
      dialogs, raised, lastOp, ops, sort_run,
      log_files, log_game, log_text, log_editable, log_call, now,
      date_trace, date_calls>>

dataVars == <<evaluations_df, wishlist_df, sort_descending>>
fileVars == <<eval_file, wish_file>>
viewVars == <<screen, listed, sort_btn, details_index>>
opVars == <<dialogs, raised, lastOp, ops, sort_run>>
popupVars == <<popup_index, popup_game>>
logVars == <<log_files, log_game, log_text, log_editable, log_call, now>>
dateVars == <<date_trace, date_calls>>
\* what the callbacks of the two collections never touch
sideVars == <<logVars, dateVars>>

today == Days[day]

NoRun == [n |-> 0, df |-> EmptyDataFrame, desc |-> TRUE]

EvalFiles ==
    {NoFile, BadFile}
        \cup {Table(SubSeq(SeedGames, 1, k)) : k \in 0..MaxFileRows}
        \cup {Table(Reverse(SubSeq(SeedGames, 1, k))) : k \in 0..MaxFileRows}

WishFiles ==
    {NoFile}
        \cup {Table(SubSeq(SeedWishes, 1, k)) : k \in 0..MaxFileRows}

Labels(s) == {s[k] : k \in 1..Len(s)}

\* GameApp.__init__: the fields after construction from the files on disk
Constructed(ef, wf) ==
    LET e == load_csv(ef)
        w == load_csv(wf)
    IN [evaluations_df |-> migrate_date_formats(e[1]),
        wishlist_df |-> w[1],
        dialogs |-> e[2] \o w[2]]

\* no details screen has been drawn and no log operation made
LogIdle ==
    /\ log_files = [f \in LogFileNames |-> NoLog]
    /\ log_game = <<>>
    /\ log_text = <<>>
    /\ log_editable = FALSE
    /\ log_call = NoCall
    /\ now = 1

\* no DateFormatter call is being followed
DateIdle ==
    /\ date_trace = <<>>
    /\ date_calls = <<>>

\* the application after construction from the files ef and wf
Launched(ef, wf) ==
    /\ eval_file = ef
    /\ wish_file = wf
    /\ evaluations_df = Constructed(eval_file, wish_file).evaluations_df
    /\ wishlist_df = Constructed(eval_file, wish_file).wishlist_df
    /\ dialogs = Constructed(eval_file, wish_file).dialogs
    /\ sort_descending = TRUE
    /\ day = 1
    /\ screen = "home"
    /\ listed = <<>>
    /\ sort_btn = "none"
    /\ details_index = -1
    /\ popup_index = -1
    /\ popup_game = -1
    /\ raised = FALSE
    /\ lastOp = "__init__"
    /\ ops = 0
    /\ sort_run = NoRun

Init ==
    /\ \E ef \in EvalFiles, wf \in WishFiles :
          /\ Len(ef.rows) + Len(wf.rows) <= MaxFileRows
          /\ Launched(ef, wf)
    /\ LogIdle
    /\ DateIdle

(***************************************************************************)
(* Views                                                                   *)
(***************************************************************************)
\* what show_game_list puts on screen for collection df and direction desc
render_game_list(df, desc) ==
    /\ screen' = "games"
    /\ sort_btn' = IF desc THEN "Newest First" ELSE "Oldest First"
    /\ listed' = IF IsEmpty(df) THEN <<>> ELSE df.index
    /\ details_index' = -1

\* what show_wish_list puts on screen for collection df
render_wish_list(df) ==
    /\ screen' = "wishes"
    /\ sort_btn' = "none"
    /\ listed' = IF IsEmpty(df) THEN <<>> ELSE df.index
    /\ details_index' = -1

\* what show_game_details(df_index) puts on screen
render_game_details(df_index) ==
    /\ screen' = "details"
    /\ sort_btn' = "none"
    /\ listed' = <<>>
    /\ details_index' = df_index

\* a run is followed for MaxOps operations
Running == ops < MaxOps

\* bookkeeping of an operation other than toggle_sort
Ran(op) ==
    /\ lastOp' = op
    /\ ops' = ops + 1
    /\ sort_run' = NoRun

(***************************************************************************)
(* Callbacks                                                               *)
(***************************************************************************)
show_game_list ==
    /\ Running
    /\ UNCHANGED sideVars
    /\ render_game_list(evaluations_df, sort_descending)
    /\ UNCHANGED opVars
    /\ UNCHANGED <<dataVars, fileVars, day, popupVars>>

show_wish_list ==
    /\ Running
    /\ UNCHANGED sideVars
    /\ render_wish_list(wishlist_df)
    /\ UNCHANGED opVars
    /\ UNCHANGED <<dataVars, fileVars, day, popupVars>>

show_game_details(df_index) ==
    /\ Running
    /\ UNCHANGED sideVars
    /\ screen = "games"
    /\ df_index \in Labels(listed)
    /\ df_index + 1 <= Len(evaluations_df.rows)
    /\ render_game_details(df_index)
    /\ UNCHANGED opVars
    /\ UNCHANGED <<dataVars, fileVars, day, popupVars>>

toggle_sort ==
    /\ screen = "games"
    /\ Running
    /\ UNCHANGED sideVars
    /\ sort_descending' = ~sort_descending
    /\ IF evaluations_df.cols
       THEN /\ evaluations_df' =
                   reset_index(sort_values(evaluations_df, sort_descending))
            /\ popup_game' =
                   IF popup_game = -1 THEN -1
                   ELSE Loc(sort_values(evaluations_df, sort_descending),
                            popup_game) - 1
            /\ render_game_list(evaluations_df', sort_descending')
            /\ raised' = FALSE
       ELSE \* KeyError: '시작'
            /\ raised' = TRUE
            /\ UNCHANGED <<evaluations_df, viewVars, popup_game>>
    /\ dialogs' = <<>>
    /\ lastOp' = "toggle_sort"
    /\ ops' = ops + 1
    /\ sort_run' = IF lastOp = "toggle_sort" /\ sort_run.n = 1
                   THEN [sort_run EXCEPT !.n = 2]
                   ELSE [n |-> 1, df |-> evaluations_df,
                         desc |-> sort_descending]
    /\ UNCHANGED <<wishlist_df, fileVars, day, popup_index>>

on_status_change(status) ==
    /\ screen = "details"
    /\ Running
    /\ UNCHANGED sideVars
    /\ evaluations_df' =
           at_set(evaluations_df, details_index, [status |-> status])
    /\ dialogs' = <<"info">>
    /\ raised' = FALSE
    /\ Ran("on_status_change")
    /\ UNCHANGED <<wishlist_df, sort_descending, fileVars, day, viewVars,
                   popupVars>>

\* the fields a DateWidget shows when the details screen is drawn
widget_fields(cell) == split_to_fields(to_display_format(cell))

\* what the fields of a DateWidget can hold when Save Dates is pressed:
\* what was typed, or what the widget was drawn with
DateChoices(cell) == DateInputs \cup {widget_fields(cell)}

save_dates(start_fields, finish_fields) ==
    /\ screen = "details"
    /\ Running
    /\ UNCHANGED sideVars
    /\ LET new_start == parse_from_fields(start_fields[1], start_fields[2],
                                          start_fields[3])
           new_finish == parse_from_fields(finish_fields[1], finish_fields[2],
                                           finish_fields[3])
       IN evaluations_df' =
              at_set(evaluations_df, details_index,
                     [start |-> new_start, finish |-> new_finish])
    /\ dialogs' = <<"info">>
    /\ raised' = FALSE
    /\ render_game_details(details_index)
    /\ Ran("save_dates")
    /\ UNCHANGED <<wishlist_df, sort_descending, fileVars, day, popupVars>>

open_evaluation_editor ==
    /\ Running
    /\ UNCHANGED sideVars
    /\ screen = "details"
    /\ popup_index = -1
    /\ popup_index' = details_index
    /\ popup_game' = details_index
    /\ UNCHANGED opVars
    /\ UNCHANGED <<dataVars, fileVars, day, viewVars>>

\* the user closes the score editor window without saving
close_evaluation_editor ==
    /\ Running
    /\ UNCHANGED sideVars
    /\ popup_index # -1
    /\ popup_index' = -1
    /\ popup_game' = -1
    /\ UNCHANGED opVars
    /\ UNCHANGED <<dataVars, fileVars, day, viewVars>>

save_scores(vals) ==
    /\ popup_index # -1
    /\ Running
    /\ UNCHANGED sideVars
    /\ evaluations_df' =
           at_set(evaluations_df, popup_index,
                  [scores |-> vals, total |-> round_mean(vals)])
    /\ dialogs' = <<"info">>
    /\ raised' = FALSE
    /\ popup_index' = -1
    /\ popup_game' = -1
    /\ render_game_details(popup_index)
    /\ Ran("save_scores")
    /\ UNCHANGED <<wishlist_df, sort_descending, fileVars, day>>

\* new_row of add_new_game_ui
added_row(title, today_date) ==
    [title |-> title, genre |-> "", status |-> "WAITING",
     start |-> today_date, finish |-> <<>>,
     scores |-> ZeroScores, total |-> 0]

add_new_game_ui(title) ==
    /\ Running
    /\ UNCHANGED sideVars
    /\ IF title # ""
       THEN /\ evaluations_df' =
                   concat(evaluations_df, added_row(title, today))
            /\ dialogs' = <<"info">>
            /\ render_game_list(evaluations_df', sort_descending)
            /\ raised' = FALSE
            /\ Ran("add_new_game_ui")
            /\ UNCHANGED <<wishlist_df, sort_descending, fileVars, day,
                           popupVars>>
       ELSE UNCHANGED vars

\* simpledialog.askstring returns None
NoAnswer == <<>>

\* answer is the new price and discount, or NoAnswer when a dialog is cancelled
edit_wishlist_item(index, answer) ==
    /\ screen = "wishes"
    /\ index \in Labels(listed)
    /\ Running
    /\ UNCHANGED sideVars
    /\ IF answer # NoAnswer
       THEN /\ wishlist_df' =
                   at_set(wishlist_df, index,
                          [price |-> answer[1], discount |-> answer[2]])
            /\ render_wish_list(wishlist_df')
            /\ dialogs' = <<>>
            /\ raised' = FALSE
            /\ Ran("edit_wishlist_item")
            /\ UNCHANGED <<evaluations_df, sort_descending, fileVars, day,
                           popupVars>>
       ELSE UNCHANGED vars

\* new_row with the date in the compact form strftime("%Y%m%d") gives
bought_row_compact_date(item, today_date) ==
    [title |-> item.title, genre |-> item.genre,
     start |-> SelectSeq(today_date, LAMBDA c : c # "/"), finish |-> <<>>,
     status |-> "WAITING", scores |-> ZeroScores, total |-> 0]

\* new_row of move_wish_to_library
bought_row(item, today_date) ==
    [title |-> item.title, genre |-> item.genre,
     start |-> today_date, finish |-> <<>>, status |-> "WAITING",
     scores |-> ZeroScores, total |-> 0]

\* move_wish_to_library that saves both files as its last step
move_wish_to_library_saving(wish_index) ==
    /\ Running
    /\ UNCHANGED sideVars
    /\ screen = "wishes"
    /\ wish_index \in Labels(listed)
    /\ wish_index + 1 <= Len(wishlist_df.rows)
    /\ evaluations_df' =
           concat(evaluations_df,
                  bought_row(wishlist_df.rows[wish_index + 1], today))
    /\ wishlist_df' = reset_index(drop(wishlist_df, wish_index))
    /\ eval_file' = save_csv(evaluations_df', eval_file, "ok")[1]
    /\ wish_file' = save_csv(wishlist_df', wish_file, "ok")[1]
    /\ dialogs' = <<"info">>
    /\ raised' = FALSE
    /\ render_wish_list(wishlist_df')
    /\ Ran("move_wish_to_library")
    /\ UNCHANGED <<sort_descending, day, popupVars>>

move_wish_to_library(wish_index) ==
    /\ screen = "wishes"
    /\ wish_index \in Labels(listed)
    /\ wish_index + 1 <= Len(wishlist_df.rows)
    /\ Running
    /\ UNCHANGED sideVars
    /\ evaluations_df' =
           concat(evaluations_df,
                  bought_row(wishlist_df.rows[wish_index + 1], today))
    /\ wishlist_df' = reset_index(drop(wishlist_df, wish_index))
    /\ dialogs' = <<"info">>
    /\ raised' = FALSE
    /\ render_wish_list(wishlist_df')
    /\ Ran("move_wish_to_library")
    /\ UNCHANGED <<sort_descending, fileVars, day, popupVars>>

save_all_data(eval_outcome, wish_outcome) ==
    /\ Running
    /\ UNCHANGED sideVars
    /\ LET e == save_csv(evaluations_df, eval_file, eval_outcome)
           w == save_csv(wishlist_df, wish_file, wish_outcome)
       IN /\ eval_file' = e[1]
          /\ wish_file' = w[1]
          /\ dialogs' = e[2] \o w[2] \o <<"info">>
    /\ raised' = FALSE
    /\ Ran("save_all_data")
    /\ UNCHANGED <<dataVars, day, viewVars, popupVars>>

\* the user quits and starts the application again, the same day or the
\* next: GameApp.__init__
GameApp_init ==
    /\ Running
    /\ UNCHANGED sideVars
    /\ day' \in {d \in {day, day + 1} : d <= Len(Days)}
    /\ evaluations_df' = Constructed(eval_file, wish_file).evaluations_df
    /\ wishlist_df' = Constructed(eval_file, wish_file).wishlist_df
    /\ dialogs' = Constructed(eval_file, wish_file).dialogs
    /\ sort_descending' = TRUE
    /\ screen' = "home"
    /\ listed' = <<>>
    /\ sort_btn' = "none"
    /\ details_index' = -1
    /\ popup_index' = -1
    /\ popup_game' = -1
    /\ raised' = FALSE
    /\ Ran("__init__")
    /\ UNCHANGED fileVars

Next ==
    \/ show_game_list
    \/ show_wish_list
    \/ \E i \in 0..(MaxFileRows + MaxOps) : show_game_details(i)
    \/ toggle_sort
    \/ \E s \in StatusInputs : on_status_change(s)
    \/ /\ screen = "details"
       /\ \E sf \in DateChoices(evaluations_df.rows[details_index + 1].start) :
             save_dates(sf, widget_fields(
                                evaluations_df.rows[details_index + 1].finish))
    \/ open_evaluation_editor
    \/ close_evaluation_editor
    \/ \E v \in ScoreInputs : save_scores(v)
    \/ \E t \in TitleInputs : add_new_game_ui(t)
    \/ \E i \in 0..(MaxFileRows - 1), a \in PriceInputs \cup {NoAnswer} :
          edit_wishlist_item(i, a)
    \/ \E i \in 0..(MaxFileRows - 1) : move_wish_to_library(i)
    \/ \E o \in WriteOutcomes : save_all_data(o[1], o[2])
    \/ GameApp_init

Spec == Init /\ [][Next]_vars

\* the score editor alone, with every slider setting of SliderInputs
NextScores ==
    \/ show_game_list
    \/ \E i \in 0..(MaxFileRows + MaxOps) : show_game_details(i)
    \/ toggle_sort
    \/ open_evaluation_editor
    \/ close_evaluation_editor
    \/ \E v \in SliderInputs : save_scores(v)

SpecScores == Init /\ [][NextScores]_vars

\* the collection of played games with every year and month of YearFields
\* and MonthDayFields typed into the start date widget
NextDateEdits ==
    \/ show_game_list
    \/ \E i \in 0..(MaxFileRows + MaxOps) : show_game_details(i)
    \/ toggle_sort
    \/ \E s \in StatusInputs : on_status_change(s)
    \/ /\ screen = "details"
       /\ \E y \in YearFields, m \in MonthDayFields :
             save_dates(<<y, m, <<>>>>,
                        widget_fields(
                            evaluations_df.rows[details_index + 1].finish))
    \/ \E t \in TitleInputs : add_new_game_ui(t)

SpecDateEdits == Init /\ [][NextDateEdits]_vars

(***************************************************************************)
(* Daily log callbacks of the details screen                               *)
(***************************************************************************)
appVars == <<dataVars, fileVars, day, viewVars, popupVars>>

\* a log file an earlier run has left
OldLog == [exists |-> TRUE, lines |-> <<<<0, <<"x">>>>>>]

\* show_game_details for a record titled game_name: the Daily Logs panel
show_game_log(game_name) ==
    /\ log_game' = game_name
    /\ log_editable' = FALSE
    /\ log_text' = read_daily_log(log_files, game_name)
    /\ UNCHANGED <<log_files, log_call, now, opVars, appVars, dateVars>>

toggle_log_edit ==
    /\ ops < MaxLogOps
    /\ log_game # <<>>
    /\ IF ~log_editable
       THEN /\ log_editable' = TRUE
            /\ log_call' = [op |-> "toggle_log_edit", game |-> log_game,
                            text |-> <<>>, n |-> log_call.n]
            /\ dialogs' = <<>>
            /\ UNCHANGED log_files
       ELSE /\ log_files' = save_daily_log_file(log_files, log_game,
                                                text_get(log_text))
            /\ log_editable' = FALSE
            /\ log_call' = [op |-> "save_daily_log_file", game |-> log_game,
                            text |-> text_get(log_text),
                            n |-> log_call.n + 1]
            /\ dialogs' = <<"info">>
    /\ raised' = FALSE
    /\ Ran("toggle_log_edit")
    /\ UNCHANGED <<log_game, log_text, now, appVars, dateVars>>

\* the user, in the Text widget while it is editable: deletes the first
\* line, moves it to the end, or types a line at the end
edit_log_text(how) ==
    /\ log_editable
    /\ \/ /\ how = "delete"
          /\ log_text # <<>>
          /\ log_text' = Tail(log_text)
       \/ /\ how = "move"
          /\ Len(log_text) > 1
          /\ log_text' = Append(Tail(log_text), Head(log_text))
       \/ /\ how = "type"
          /\ Len(log_text) < MaxLogOps - 1
          /\ log_text' = Append(log_text, <<0, <<"y">>>>)
    /\ UNCHANGED <<log_files, log_game, log_editable, log_call, now, opVars,
                   appVars, dateVars>>

\* quick_entry holds text when Add Log is pressed, in the minute of the last
\* entry or in the next
add_quick_log(text) ==
    /\ ops < MaxLogOps
    /\ log_game # <<>>
    /\ ~log_editable
    /\ now' \in {now, now + 1}
    /\ IF Strip(text) # <<>>
       THEN /\ log_text' = Append(log_text, <<now', Strip(text)>>)
            /\ log_files' = append_entry(log_files, log_game,
                                         <<now', Strip(text)>>)
       ELSE UNCHANGED <<log_text, log_files>>
    /\ log_call' = [op |-> "add_quick_log", game |-> log_game, text |-> text,
                    n |-> log_call.n + 1]
    /\ dialogs' = <<>>
    /\ raised' = FALSE
    /\ Ran("add_quick_log")
    /\ UNCHANGED <<log_game, log_editable, appVars, dateVars>>

InitLog ==
    /\ Launched(Table(SeedGames), NoFile)
    /\ log_files \in [LogFileNames -> {NoLog, OldLog}]
    /\ log_game = <<>>
    /\ log_text = <<>>
    /\ log_editable = FALSE
    /\ log_call = NoCall
    /\ now = 1
    /\ DateIdle

NextLog ==
    \/ \E g \in GameNames : show_game_log(g)
    \/ toggle_log_edit
    \/ \E how \in {"delete", "move", "type"} : edit_log_text(how)
    \/ \E text \in QuickEntries : add_quick_log(text)

SpecLog == InitLog /\ [][NextLog]_vars

(***************************************************************************)
(* DateFormatter, called on its own                                        *)
(***************************************************************************)
Last(s) == s[Len(s)]

\* to_display_format on the text the last call returned, or on the input
call_to_display_format ==
    /\ date_calls # <<>>
    /\ Head(date_calls) = "text"
    /\ Len(date_calls) < 3
    /\ date_trace' = Append(date_trace, to_display_format(Last(date_trace)))
    /\ date_calls' = Append(date_calls, "to_display_format")
    /\ UNCHANGED <<appVars, opVars, logVars>>

call_to_storage_format ==
    /\ date_calls # <<>>
    /\ Head(date_calls) = "text"
    /\ Len(date_calls) < 3
    /\ date_trace' = Append(date_trace, to_storage_format(Last(date_trace)))
    /\ date_calls' = Append(date_calls, "to_storage_format")
    /\ UNCHANGED <<appVars, opVars, logVars>>

call_parse_from_fields ==
    /\ date_calls = <<"fields">>
    /\ date_trace' =
           Append(date_trace,
                  parse_from_fields(date_trace[1][1], date_trace[1][2],
                                    date_trace[1][3]))
    /\ date_calls' = Append(date_calls, "parse_from_fields")
    /\ UNCHANGED <<appVars, opVars, logVars>>

\* split_to_fields on what parse_from_fields returned
call_split_to_fields ==
    /\ date_calls = <<"fields", "parse_from_fields">>
    /\ date_trace' = Append(date_trace, split_to_fields(Last(date_trace)))
    /\ date_calls' = Append(date_calls, "split_to_fields")
    /\ UNCHANGED <<appVars, opVars, logVars>>

InitDates ==
    /\ Launched(NoFile, NoFile)
    /\ LogIdle
    /\ \/ /\ date_calls = <<"text">>
          /\ \E x \in DateStrings : date_trace = <<x>>
       \/ /\ date_calls = <<"fields">>
          /\ \E f \in DateFields : date_trace = <<f>>

NextDates ==
    \/ call_to_display_format
    \/ call_to_storage_format
    \/ call_parse_from_fields
    \/ call_split_to_fields

SpecDates == InitDates /\ [][NextDates]_vars

(***************************************************************************)
(* Properties                                                              *)
(***************************************************************************)
\* the step is operation op
Did(op) == ops' = ops + 1 /\ lastOp' = op

\* s without its p-th element
Without(s, p) == SubSeq(s, 1, p - 1) \o SubSeq(s, p + 1, Len(s))

\* YYYY/MM/DD: ten characters, digits around two slashes
IsCanonicalDate(s) ==
    /\ Len(s) = 10
    /\ s[5] = "/" /\ s[8] = "/"
    /\ \A i \in {1, 2, 3, 4, 6, 7, 9, 10} : s[i] \in Digits

GameTitles(df) == {df.rows[i].title : i \in 1..Len(df.rows)}

\* what move_wish_to_library is to do to the row counts and to the new row
MoveCountsAndDefaults ==
    /\ Len(wishlist_df'.rows) = Len(wishlist_df.rows) - 1
    /\ Len(evaluations_df'.rows) = Len(evaluations_df.rows) + 1
    /\ LET new == evaluations_df'.rows[Len(evaluations_df'.rows)]
       IN /\ new.status = "WAITING"
          /\ new.start = Days[day']
          /\ IsCanonicalDate(new.start)

\* C1 as stated: after move_to_library(i) the wishlist has one row fewer,
\* the played games one more, the new row is WAITING and starts today, and
\* no game is in both the wishlist and the played games.
C1_NoGameInBoth ==
    [][Did("move_wish_to_library") =>
          /\ MoveCountsAndDefaults
          /\ GameTitles(wishlist_df') \cap GameTitles(evaluations_df') = {}]_vars

\* C1 amended: after move_to_library(i) the wishlist has one row fewer, the
\* played games one more, the new row is WAITING and starts today in
\* YYYY/MM/DD form, and the wishlist is the former wishlist without row i
\* (another wishlist row, or an older played row, may carry the same title).
C1_MovedRowLeavesWishlist ==
    [][Did("move_wish_to_library") =>
          /\ MoveCountsAndDefaults
          /\ \E p \in 1..Len(wishlist_df.rows) :
                 /\ wishlist_df'.rows = Without(wishlist_df.rows, p)
                 /\ evaluations_df'.rows[Len(evaluations_df'.rows)].title
                        = wishlist_df.rows[p].title]_vars

C1_Witness ==
    /\ lastOp = "move_wish_to_library"
    /\ wishlist_df.rows # <<>>
    /\ Len(evaluations_df.rows) >= 2
    /\ evaluations_df.rows[Len(evaluations_df.rows)].status = "WAITING"

\* df2 is df but for the cells of the row at index label in columns
OnlyRowChanged(df, df2, label, columns) ==
    /\ df2.cols = df.cols
    /\ df2.index = df.index
    /\ Len(df2.rows) = Len(df.rows)
    /\ label + 1 \in 1..Len(df.rows)
    /\ \A p \in 1..Len(df.rows) :
           IF p = label + 1
           THEN /\ DOMAIN df2.rows[p] = DOMAIN df.rows[p]
                /\ \A c \in DOMAIN df.rows[p] \ columns :
                       df2.rows[p][c] = df.rows[p][c]
           ELSE df2.rows[p] = df.rows[p]

\* C2: a status edit changes only the status of the one record, a date
\* edit only its start and finish date, a score edit only its six
\* sub-scores and its total; the other records, the row order, the wishlist
\* and the sort direction stay as they were.
C2_EditsTouchOneRecord ==
    [][/\ Did("on_status_change") =>
             /\ OnlyRowChanged(evaluations_df, evaluations_df', details_index,
                               {"status"})
             /\ UNCHANGED <<wishlist_df, sort_descending>>
       /\ Did("save_dates") =>
             /\ OnlyRowChanged(evaluations_df, evaluations_df', details_index,
                               {"start", "finish"})
             /\ UNCHANGED <<wishlist_df, sort_descending>>
       /\ Did("save_scores") =>
             /\ OnlyRowChanged(evaluations_df, evaluations_df', popup_index,
                               {"scores", "total"})
             /\ UNCHANGED <<wishlist_df, sort_descending>>]_vars

C2_Witness ==
    /\ lastOp = "save_scores"
    /\ Len(evaluations_df.rows) >= 2
    /\ \E p, q \in 1..Len(evaluations_df.rows) :
           /\ evaluations_df.rows[p].scores \in ScoreInputs
           /\ evaluations_df.rows[q].scores \notin ScoreInputs

\* C3: the played-games file and the wishlist file change only in
\* save_all_data; edits, toggle_sort, add game, wishlist edits and
\* move_to_library leave both files as they were.
C3_FilesChangeOnlyOnSave ==
    [][(eval_file' # eval_file \/ wish_file' # wish_file)
          => Did("save_all_data")]_vars

\* the file a successful save_csv of df leaves
Written(df) == save_csv(df, NoFile, "ok")[1]

C3_Witness ==
    /\ lastOp \in {"add_new_game_ui", "move_wish_to_library"}
    /\ eval_file # Written(evaluations_df)
    /\ eval_file.kind = "table"

Count(s, x) == Cardinality({i \in 1..Len(s) : s[i] = x})

\* s and t hold the same elements the same number of times
SameElements(s, t) ==
    /\ Len(s) = Len(t)
    /\ \A i \in 1..Len(s) : Count(s, s[i]) = Count(t, s[i])

\* rows are in start-date order: newest first when desc, else oldest first
InStartOrder(rows, desc) ==
    \A i \in 1..(Len(rows) - 1) :
        IF desc THEN ~StrLess(rows[i].start, rows[i + 1].start)
        ELSE ~StrLess(rows[i + 1].start, rows[i].start)

DistinctStarts(rows) ==
    \A i, j \in 1..Len(rows) : i # j => rows[i].start # rows[j].start

\* C4 as stated: toggle_sort twice in a row gives back the row order and
\* the indices the collection had before the first call.
C4_TwiceRestoresOrder ==
    sort_run.n = 2 =>
        /\ evaluations_df.rows = sort_run.df.rows
        /\ evaluations_df.index = sort_run.df.index

\* C4 amended: toggle_sort twice in a row restores the sort direction and
\* leaves the same rows, indexed 0..n-1, in start-date order for that
\* direction; this is the order from before the first call when the
\* collection was already in that order with no two equal start dates.
C4_TwiceSortsInDirection ==
    sort_run.n = 2 =>
        /\ sort_descending = sort_run.desc
        /\ evaluations_df.index = RangeIndex(Len(evaluations_df.rows))
        /\ SameElements(evaluations_df.rows, sort_run.df.rows)
        /\ InStartOrder(evaluations_df.rows, sort_descending)
        /\ (InStartOrder(sort_run.df.rows, sort_run.desc)
               /\ DistinctStarts(sort_run.df.rows))
              => evaluations_df.rows = sort_run.df.rows

C4_Witness ==
    /\ sort_run.n = 2
    /\ Len(evaluations_df.rows) >= 2
    /\ evaluations_df.rows # sort_run.df.rows
    /\ DistinctStarts(evaluations_df.rows)

\* C5 as stated: after toggle_sort, in either direction, every record with
\* an empty start date comes after every record with a non-empty one.
C5_EmptyStartsLast ==
    (lastOp = "toggle_sort" /\ ~raised) =>
        \A i, j \in 1..Len(evaluations_df.rows) :
            (evaluations_df.rows[i].start = <<>>
                /\ evaluations_df.rows[j].start # <<>>) => j < i

C7_SaveThenLoad ==
    [][(lastOp = "save_all_data" /\ dialogs = <<"info">> /\ Did("__init__"))
          => /\ ~IsEmpty(evaluations_df) => evaluations_df' = evaluations_df
             /\ ~IsEmpty(wishlist_df) => wishlist_df' = wishlist_df]_vars

\* C8: load gives the empty collection for a missing file, without an
\* error, and for an unparsable file, with one error shown to the user;
\* neither raises to the caller.
C8_LoadDegradesToEmpty ==
    lastOp = "__init__" =>
        /\ eval_file.kind # "table" => evaluations_df = EmptyDataFrame
        /\ wish_file.kind # "table" => wishlist_df = EmptyDataFrame
        /\ Len(dialogs) = Cardinality({f \in {"e", "w"} :
                               IF f = "e" THEN eval_file.kind = "unparsable"
                               ELSE wish_file.kind = "unparsable"})
        /\ \A i \in 1..Len(dialogs) : dialogs[i] = "error"
        /\ ~raised

C8_Witness ==
    /\ lastOp = "__init__"
    /\ ops > 0
    /\ eval_file.kind = "unparsable"
    /\ wish_file.kind = "missing"
    /\ dialogs = <<"error">>

SortLabel(desc) == IF desc THEN "Newest First" ELSE "Oldest First"

\* C9 as stated: on the empty collection a missing or unparsable file
\* leaves, toggle_sort, add game and save_all_data end without an uncaught
\* error, and toggle_sort leaves the collection empty and the direction on
\* screen the direction in force.
C9_NothingFatalWhenDegraded ==
    [][(evaluations_df = EmptyDataFrame
          /\ (Did("toggle_sort") \/ Did("add_new_game_ui")
                \/ Did("save_all_data")))
          => /\ ~raised'
             /\ Did("toggle_sort") =>
                   /\ evaluations_df'.rows = <<>>
                   /\ sort_btn' = SortLabel(sort_descending')]_vars

\* C10: when a write fails in save, the user is shown an error and both
\* collections in memory are what they were before the save.
C10_FailedSaveKeepsMemory ==
    [][Did("save_all_data") =>
          /\ evaluations_df' = evaluations_df
          /\ wishlist_df' = wishlist_df
          /\ (eval_file' # Written(evaluations_df)
                \/ wish_file' # Written(wishlist_df))
                => \E i \in 1..Len(dialogs') : dialogs'[i] = "error"]_vars

C10_Witness ==
    /\ lastOp = "save_all_data"
    /\ \E i \in 1..Len(dialogs) : dialogs[i] = "error"
    /\ ~IsEmpty(evaluations_df)
    /\ eval_file # Written(evaluations_df)

\* sum of six scores, in tenths
SumOf(vals) == vals[1] + vals[2] + vals[3] + vals[4] + vals[5] + vals[6]

\* the mean of six scores to one decimal, a half going up
MeanHalfUp(vals) == (2 * SumOf(vals) + 6) \div 12

\* the mean of six scores to one decimal, a half going to the even tenth
MeanHalfEven(vals) ==
    LET q == SumOf(vals) \div 6
    IN IF SumOf(vals) % 6 < 3 THEN q
       ELSE IF SumOf(vals) % 6 > 3 THEN q + 1
       ELSE IF q % 2 = 0 THEN q ELSE q + 1

\* the records of the played games whose scores the score editor has set
EditedRows ==
    {i \in 1..Len(evaluations_df.rows) :
        evaluations_df.rows[i].scores \in SliderInputs}

\* C11 as stated: after a score edit the total is the mean of the six stored
\* scores rounded to one decimal (by one rule for halves: up, or to even),
\* it lies in 0.0..5.0, and it is 4.2 for the scores 5, 5, 5, 5, 5, 0.
C11_TotalIsRoundedMean ==
    /\ \A i \in EditedRows : evaluations_df.rows[i].total \in 0..50
    /\ \A i \in EditedRows :
           evaluations_df.rows[i].scores = <<50, 50, 50, 50, 50, 0>>
               => evaluations_df.rows[i].total = 42
    /\ \/ \A i \in EditedRows :
              evaluations_df.rows[i].total
                  = MeanHalfUp(evaluations_df.rows[i].scores)
       \/ \A i \in EditedRows :
              evaluations_df.rows[i].total
                  = MeanHalfEven(evaluations_df.rows[i].scores)

\* YYYYMMDD or YYYYMMDD.0, as files of older versions hold a date
IsLegacyDate(s) ==
    \/ Len(s) = 8 /\ IsDigit(s)
    \/ /\ Len(s) = 10
       /\ IsDigit(SubSeq(s, 1, 8))
       /\ SubSeq(s, 9, 10) = <<".", "0">>

\* cell is what startup is to make of the date text of the file
MigratedDate(text, cell) ==
    IF IsLegacyDate(text)
    THEN /\ IsCanonicalDate(cell)
         /\ SelectSeq(cell, LAMBDA c : c # "/") = SubSeq(text, 1, 8)
    ELSE (text = <<>> \/ IsCanonicalDate(text)) => cell = text

\* C12: after startup, before anything is shown or saved, every start and
\* finish date the file held as YYYYMMDD or YYYYMMDD.0 is YYYY/MM/DD with
\* the same digits, and the canonical and the empty ones are as in the file.
C12_LegacyDatesMigrated ==
    (lastOp = "__init__" /\ eval_file.kind = "table") =>
        /\ Len(evaluations_df.rows) = Len(eval_file.rows)
        /\ \A i \in 1..Len(eval_file.rows) :
               /\ MigratedDate(eval_file.rows[i].start,
                               evaluations_df.rows[i].start)
               /\ MigratedDate(eval_file.rows[i].finish,
                               evaluations_df.rows[i].finish)

C12_Witness ==
    /\ lastOp = "__init__"
    /\ \E i, j \in 1..Len(eval_file.rows) :
           /\ eval_file.rows[i].start = d_20230912_0
           /\ eval_file.rows[i].finish = d_20240105
           /\ evaluations_df.rows[i].start = d_2023_09_12
           /\ eval_file.rows[j].start = <<>>

\* the other log files are as they were
OtherLogsKept(game_name) ==
    \A f \in LogFileNames \ {get_log_filename(game_name)} :
        log_files'[f] = log_files[f]

\* the overwrite of the bulk edit mode: the file is the text it was given
OverwriteStep ==
    lastOp' = "toggle_log_edit" /\ log_editable =>
        /\ read_daily_log(log_files', log_game) = log_call'.text
        /\ OtherLogsKept(log_game)

\* C13 as stated: an append adds one line "[timestamp] text" after what the
\* log of the title held, whatever the text, and changes nothing else; an
\* overwrite leaves exactly the text it was given; nothing else writes.
C13_AppendAddsOneLine ==
    [][/\ ops' # ops /\ lastOp' = "add_quick_log" =>
            /\ read_daily_log(log_files', log_game) =
                   Append(read_daily_log(log_files, log_game),
                          <<now', Strip(log_call'.text)>>)
            /\ OtherLogsKept(log_game)
       /\ ops' # ops => OverwriteStep
       /\ ops' = ops => log_files' = log_files]_vars

\* C13, amended: an append whose text is not blank adds one line
\* "[timestamp] text", text without the surrounding blanks, after what the
\* log of the title held; an append of blank text adds nothing; neither
\* changes what the log held or another log; an overwrite leaves exactly the
\* text it was given; nothing else writes.
C13_AppendOrdered ==
    [][/\ ops' # ops /\ lastOp' = "add_quick_log" =>
            /\ read_daily_log(log_files', log_game) =
                   IF Strip(log_call'.text) = <<>>
                   THEN read_daily_log(log_files, log_game)
                   ELSE Append(read_daily_log(log_files, log_game),
                               <<now', Strip(log_call'.text)>>)
            /\ OtherLogsKept(log_game)
       /\ ops' # ops => OverwriteStep
       /\ ops' = ops => log_files' = log_files]_vars

\* two entries of the same minute, in call order, after older content
C13_Witness ==
    /\ lastOp = "add_quick_log"
    /\ Len(read_daily_log(log_files, log_game)) >= 3
    /\ LET lines == read_daily_log(log_files, log_game)
       IN /\ lines[Len(lines)] = <<now, <<"w", "o", "n">>>>
          /\ lines[Len(lines) - 1] = <<now, <<"o", "k">>>>
          /\ lines[1][1] = 0

\* a month or day field as the round trip is to return it: blank and "00"
\* as the empty string, one character with a zero before it
PaddedField(field) ==
    IF Strip(field) \in {<<>>, <<"0", "0">>} THEN <<>>
    ELSE IF Len(Strip(field)) = 1 THEN <<"0">> \o Strip(field)
    ELSE Strip(field)

\* C14 as stated: split_to_fields(parse_from_fields(y, m, d)) is the year as
\* entered (but for surrounding blanks), and the month and the day as the
\* empty string when blank and padded with a zero to two digits otherwise,
\* for all field texts, the blank ones included.
C14_FieldsRoundTrip ==
    date_calls = <<"fields", "parse_from_fields", "split_to_fields">> =>
        date_trace[3] = <<Strip(date_trace[1][1]),
                          PaddedField(date_trace[1][2]),
                          PaddedField(date_trace[1][3])>>

\* C15 as stated: to_display_format and to_storage_format return a string
\* for every text, and calling either on its own result returns that result.
C15_Idempotent ==
    /\ date_calls = <<"text", "to_display_format", "to_display_format">> =>
           date_trace[3] = date_trace[2]
    /\ date_calls = <<"text", "to_storage_format", "to_storage_format">> =>
           date_trace[3] = date_trace[2]
    /\ \A i \in 2..Len(date_trace) :
           date_calls[i] \in {"to_display_format", "to_storage_format"} =>
               date_trace[i] \in Seq(DateChars \cup Digits)

\* C16 as stated: when the score editor that was opened for a game is saved,
\* the scores go to the record of that game, wherever toggle_sort has moved
\* it since the editor was opened, and every other record stays as it was.
C16_ScoresGoToOpenedGame ==
    [][Did("save_scores") =>
          /\ Len(evaluations_df'.rows) = Len(evaluations_df.rows)
          /\ \A i \in 1..Len(evaluations_df.rows) :
                 i # popup_game + 1 =>
                     evaluations_df'.rows[i] = evaluations_df.rows[i]]_vars

\* C17 as stated: every start date of the played games is empty or ten
\* characters YYYY/MM/DD, after any sequence of operations on a collection
\* that was so when loaded.
C17_StartDatesFixedWidth ==
    \A i \in 1..Len(evaluations_df.rows) :
        \/ evaluations_df.rows[i].start = <<>>
        \/ IsCanonicalDate(evaluations_df.rows[i].start)

\* C18 as stated: save_all_data shows the success message only when both
\* files were written, and a save that failed shows one message, the error.
C18_SuccessOnlyWhenWritten ==
    [][Did("save_all_data") =>
          ((eval_file' # Written(evaluations_df)
                \/ wish_file' # Written(wishlist_df))
             => dialogs' = <<"error">>)]_vars

====
